---- MODULE Spec2Model ----
(***************************************************************************)
(* Model of the query-response pipeline of app.py: one script run per      *)
(* user action, translating a question to SQL, extracting the statement,  *)
(* executing it, parsing the raw result, summarising it and optionally    *)
(* synthesising speech, with the script's two try/except regions.          *)
(***************************************************************************)
EXTENDS Integers, Sequences, FiniteSets, TLC

\* ---------------------------------------------------------------- bounds
MaxPieces == 4
MaxRows == 2

\* ------------------------------------------------------- text as characters
Marker == <<"S", "Q", "L", "Q", "u", "e", "r", "y", ":">>

\* the literal text of the pattern r'SQLQuery: (.*)' before the group
Pattern == Marker \o <<" ">>

\* characters removed by str.strip() that occur in the modelled texts
Whitespace == {" ", "\n", "\t"}

Pieces == {Marker, <<" ">>, <<"\n">>, <<"x">>}

RECURSIVE TextsOf(_)
TextsOf(k) ==
  IF k = 0 THEN {<<>>}
  ELSE LET shorter == TextsOf(k - 1)
       IN shorter \cup {t \o p : t \in shorter, p \in Pieces}

\* the translations sql_query_chain.invoke may return
Texts == TextsOf(MaxPieces)

MatchesAt(text, lit, i) ==
  /\ i >= 1
  /\ i + Len(lit) - 1 <= Len(text)
  /\ SubSeq(text, i, i + Len(lit) - 1) = lit

RECURSIVE ScanFrom(_, _)
ScanFrom(text, i) ==
  IF i + Len(Pattern) - 1 > Len(text) THEN 0
  ELSE IF MatchesAt(text, Pattern, i) THEN i
  ELSE ScanFrom(text, i + 1)

RECURSIVE ScanLast(_, _)
ScanLast(text, i) ==
  IF i < 1 THEN 0
  ELSE IF MatchesAt(text, Pattern, i) THEN i
  ELSE ScanLast(text, i - 1)

\* a search that reports the last occurrence instead of the first
ReSearchLast(text) == ScanLast(text, Len(text))

\* re.search(r'SQLQuery: (.*)', text, re.DOTALL): start of the leftmost
\* match, 0 for None
ReSearch(text) == ScanFrom(text, 1)

\* sql_only.group(1): with DOTALL, (.*) runs to the end of the text
Group1(text, m) == SubSeq(text, m + Len(Pattern), Len(text))

RECURSIVE LStrip(_)
LStrip(s) ==
  IF s # <<>> /\ Head(s) \in Whitespace THEN LStrip(Tail(s)) ELSE s

RECURSIVE RStrip(_)
RStrip(s) ==
  IF s # <<>> /\ s[Len(s)] \in Whitespace
  THEN RStrip(SubSeq(s, 1, Len(s) - 1))
  ELSE s

\* str.strip()
Strip(s) == RStrip(LStrip(s))

\* ------------------------------------------------------------ Python values
None == [py |-> "NoneType"]

PyStr(chars) == [py |-> "str", chars |-> chars]

Exc(name) == [py |-> "Exception", name |-> name]

TranslateErrors == {Exc("APIConnectionError")}

ExecuteErrors == {Exc("OperationalError")}

SummarizeErrors == {Exc("RateLimitError")}

SpeechErrors == {Exc("gTTSError")}

Sized == {"list", "tuple", "dict"}

\* what query_execute.invoke may return: a native list of rows, another
\* native value, or text (a literal of n elements, or text that is no
\* literal at all)
RawResults ==
  [py : {"list", "tuple"}, n : 0..MaxRows]
    \cup [py : {"str"}, lit : Sized, n : 0..MaxRows]
    \cup [py : {"str"}, lit : {"int", "malformed"}, n : {0}]

Ok(v) == [ok |-> TRUE, val |-> v]

Raise(e) == [ok |-> FALSE, exc |-> e]

\* ast.literal_eval
LiteralEval(v) ==
  IF v.py = "str"
  THEN IF v.lit = "malformed" THEN Raise(Exc("SyntaxError"))
       ELSE Ok([py |-> v.lit, n |-> v.n])
  ELSE Raise(Exc("ValueError"))

\* results = raw_result if it is a list, else ast.literal_eval(raw_result)
ParseResults(raw) ==
  IF raw.py = "list" THEN Ok(raw) ELSE LiteralEval(raw)

\* len(results)
PyLen(v) ==
  IF v.py \in Sized THEN Ok(v.n) ELSE Raise(Exc("TypeError"))

\* ------------------------------------------------------------- the page
El(kind, text, arg) == [el |-> kind, text |-> text, arg |-> arg]

Questions == {"", "Which doctors treat flu?"}

Summaries == {"Two doctors treat flu.", ""}

VARIABLES
  pc,             \* position of the script run; "ready" between runs
  user_question,  \* st.text_input
  enable_voice,   \* st.toggle
  full_response,  \* translation text
  clean_query,    \* extracted SQL, the argument of query_execute.invoke
  raw_result,     \* what the executor returned
  results,        \* parsed rows
  nl_response,    \* summary text
  ui,             \* elements rendered by this script run, in order
  trace           \* calls and stages attempted in this run: outcome and argument

vars == <<pc, user_question, enable_voice, full_response, clean_query,
          raw_result, results, nl_response, ui, trace>>

Step(stage, ok, arg) == [stage |-> stage, ok |-> ok, arg |-> arg]

Init ==
  /\ pc = "ready"
  /\ user_question = ""
  /\ enable_voice = FALSE
  /\ full_response = <<>>
  /\ clean_query = <<>>
  /\ raw_result = None
  /\ results = None
  /\ nl_response = ""
  /\ ui = <<>>
  /\ trace = <<>>

\* an outer handler that lets the exception escape the script run
OuterExceptEscapes(shown, e) ==
  /\ ui' = shown
  /\ pc' = "crashed"

\* an outer handler that reports and then carries on with the results
OuterExceptContinues(shown, e) ==
  /\ ui' = Append(shown, El("error", "Error processing question: ", e))
  /\ pc' = "parse"

\* except Exception as e: st.error(f"Error processing question: {e}")
OuterExcept(shown, e) ==
  /\ ui' = Append(shown, El("error", "Error processing question: ", e))
  /\ pc' = "ready"

\* an inner handler that reports and then carries on with the summary
InnerExceptContinues(shown, e) ==
  /\ ui' = shown \o <<El("error", "Error formatting results: ", e),
                      El("write", "", raw_result)>>
  /\ pc' = "summarize"

\* except Exception as e: st.error(f"Error formatting results: {e}");
\* st.write(raw_result)
InnerExcept(shown, e) ==
  /\ ui' = shown \o <<El("error", "Error formatting results: ", e),
                      El("write", "", raw_result)>>
  /\ pc' = "ready"

\* a script run: the widgets take their values and the page is redrawn
Submit ==
  /\ pc = "ready"
  /\ \E q \in Questions, button \in BOOLEAN, voice \in BOOLEAN :
       /\ user_question' = q
       /\ enable_voice' = voice
       /\ IF button \/ q # ""
          THEN IF q # ""
               THEN pc' = "translate" /\ ui' = <<>>
               ELSE /\ pc' = "ready"
                    /\ ui' = <<El("warning", "Please enter a question.", None)>>
          ELSE pc' = "ready" /\ ui' = <<>>
  /\ full_response' = <<>>
  /\ clean_query' = <<>>
  /\ raw_result' = None
  /\ results' = None
  /\ nl_response' = ""
  /\ trace' = <<>>

\* full_response = sql_query_chain.invoke(...); st.code(full_response)
Translate ==
  /\ pc = "translate"
  /\ \/ \E t \in Texts :
          /\ full_response' = t
          /\ ui' = Append(ui, El("code", "View Generated SQL", PyStr(t)))
          /\ pc' = "extract"
          /\ trace' = Append(trace, Step("translate", TRUE, None))
     \/ \E e \in TranslateErrors :
          /\ OuterExcept(ui, e)
          /\ trace' = Append(trace, Step("translate", FALSE, None))
          /\ UNCHANGED full_response
  /\ UNCHANGED <<user_question, enable_voice, clean_query, raw_result,
                 results, nl_response>>

\* a no-match branch that runs the whole response as SQL
NoMatchRunsAnyway ==
  /\ clean_query' = Strip(full_response)
  /\ pc' = "execute"
  /\ UNCHANGED ui

\* else: st.error("Could not extract SQL query from response")
NoMatch ==
  /\ ui' = Append(ui, El("error", "Could not extract SQL query from response", None))
  /\ pc' = "ready"
  /\ UNCHANGED clean_query

\* sql_only = re.search(...); clean_query = sql_only.group(1).strip()
Extract ==
  /\ pc = "extract"
  /\ LET m == ReSearch(full_response)
     IN IF m # 0
        THEN /\ clean_query' = Strip(Group1(full_response, m))
             /\ pc' = "execute"
             /\ UNCHANGED ui
             /\ trace' = Append(trace, Step("extract", TRUE, None))
        ELSE /\ NoMatch
             /\ trace' = Append(trace, Step("extract", FALSE, None))
  /\ UNCHANGED <<user_question, enable_voice, full_response, raw_result,
                 results, nl_response>>

\* raw_result = query_execute.invoke(clean_query); st.subheader("Results")
Execute ==
  /\ pc = "execute"
  /\ \/ \E r \in RawResults :
          /\ raw_result' = r
          /\ ui' = Append(ui, El("subheader", "Results", None))
          /\ pc' = "parse"
          /\ trace' = Append(trace, Step("execute", TRUE, PyStr(clean_query)))
     \/ \E e \in ExecuteErrors :
          /\ OuterExcept(ui, e)
          /\ trace' = Append(trace, Step("execute", FALSE, PyStr(clean_query)))
          /\ UNCHANGED raw_result
  /\ UNCHANGED <<user_question, enable_voice, full_response, clean_query,
                 results, nl_response>>

\* an empty result drawn as an empty table
EmptyAsTable ==
  /\ ui' = Append(ui, El("table", "", results'))
  /\ pc' = "ready"

\* if len(results) == 0: st.info("No results found.")
EmptyResults ==
  /\ ui' = Append(ui, El("info", "No results found.", None))
  /\ pc' = "ready"

\* the parse, the length test and the table
Parse ==
  /\ pc = "parse"
  /\ LET p == ParseResults(raw_result)
     IN IF p.ok
        THEN /\ results' = p.val
             /\ LET n == PyLen(p.val)
                IN IF n.ok
                   THEN /\ trace' = Append(trace, Step("parse", TRUE, None))
                        /\ IF n.val = 0
                           THEN EmptyResults
                           ELSE /\ ui' = Append(ui, El("table", "", p.val))
                                /\ pc' = "summarize"
                   ELSE /\ trace' = Append(trace, Step("parse", FALSE, None))
                        /\ InnerExcept(ui, n.exc)
        ELSE /\ UNCHANGED results
             /\ trace' = Append(trace, Step("parse", FALSE, None))
             /\ InnerExcept(ui, p.exc)
  /\ UNCHANGED <<user_question, enable_voice, full_response, clean_query,
                 raw_result, nl_response>>

\* a summary step that always goes on to the voice output
AfterSummaryAlwaysVoice == "voice"

\* if enable_voice:
AfterSummary == IF enable_voice THEN "voice" ELSE "ready"

\* st.subheader("Summary"); nl_response = llm.invoke(nl_prompt).content;
\* st.write(nl_response)
Summarize ==
  /\ pc = "summarize"
  /\ LET shown == Append(ui, El("subheader", "Summary", None))
     IN \/ \E s \in Summaries :
             /\ nl_response' = s
             /\ ui' = Append(shown, El("write", "summary", [py |-> "str", text |-> s]))
             /\ pc' = AfterSummary
             /\ trace' = Append(trace, Step("summarize", TRUE, None))
        \/ \E e \in SummarizeErrors :
             /\ InnerExcept(shown, e)
             /\ trace' = Append(trace, Step("summarize", FALSE, None))
             /\ UNCHANGED nl_response
  /\ UNCHANGED <<user_question, enable_voice, full_response, clean_query,
                 raw_result, results>>

\* a text_to_speech whose handler lets the exception propagate
SpeechExceptReraises(e) ==
  [ret |-> None, shown |-> <<>>, raised |-> TRUE, exc |-> e]

\* except Exception as e: st.error(f"Error generating speech: {e}");
\* return None
SpeechExcept(e) ==
  [ret |-> None,
   shown |-> <<El("error", "Error generating speech: ", e)>>,
   raised |-> FALSE, exc |-> e]

\* text_to_speech(text); outcome is the exception gTTS or the file system
\* raised inside the try block, None when there was none
TextToSpeech(text, outcome) ==
  IF outcome = None
  THEN [ret |-> [py |-> "str", audio |-> text], shown |-> <<>>,
        raised |-> FALSE, exc |-> None]
  ELSE SpeechExcept(outcome)

\* the voice branch
Voice ==
  /\ pc = "voice"
  /\ \E outcome \in {None} \cup SpeechErrors :
       LET shown == ui \o <<El("subheader", "Voice Summary", None),
                            El("markdown", "Listen to the summary:", None)>>
           r == TextToSpeech(nl_response, outcome)
       IN /\ trace' = Append(trace, Step("synthesize", outcome = None, [py |-> "str", text |-> nl_response]))
          /\ IF r.raised
             THEN InnerExcept(shown \o r.shown, r.exc)
             ELSE /\ pc' = "ready"
                  /\ ui' = IF r.ret # None
                           THEN shown \o r.shown \o <<El("markdown", "audio", r.ret)>>
                           ELSE shown \o r.shown
  /\ UNCHANGED <<user_question, enable_voice, full_response, clean_query,
                 raw_result, results, nl_response>>

Pipeline == Translate \/ Extract \/ Execute \/ Parse \/ Summarize \/ Voice

Next == Submit \/ Translate \/ Extract \/ Execute \/ Parse \/ Summarize \/ Voice

Spec == Init /\ [][Next]_vars

\* the script runs synchronously to its end once started
LiveSpec == Init /\ [][Next]_vars /\ WF_vars(Pipeline)

\* ------------------------------------------------------------- observations
Has(kind, text) == \E i \in DOMAIN ui : ui[i].el = kind /\ ui[i].text = text

HasEl(kind) == \E i \in DOMAIN ui : ui[i].el = kind

Attempted(stage) == \E i \in DOMAIN trace : trace[i].stage = stage

Succeeded(stage) == \E i \in DOMAIN trace : trace[i].stage = stage /\ trace[i].ok

Failed(stage) == \E i \in DOMAIN trace : trace[i].stage = stage /\ ~trace[i].ok

Contains(text, lit) == \E i \in 1..Len(text) : MatchesAt(text, lit, i)

\* the text that follows the first occurrence of lit
AfterFirst(text, lit) ==
  LET first == CHOOSE i \in 1..Len(text) :
                 /\ MatchesAt(text, lit, i)
                 /\ \A j \in 1..(i - 1) : ~MatchesAt(text, lit, j)
  IN SubSeq(text, first + Len(lit), Len(text))

\* q is s without its leading and trailing whitespace
IsTrimOf(q, s) ==
  \E a, b \in 0..Len(s) :
    /\ a + b <= Len(s)
    /\ q = SubSeq(s, a + 1, Len(s) - b)
    /\ \A i \in 1..a : s[i] \in Whitespace
    /\ \A i \in (Len(s) - b + 1)..Len(s) : s[i] \in Whitespace
    /\ q # <<>> => (q[1] \notin Whitespace /\ q[Len(q)] \notin Whitespace)

ExtractionError == "Could not extract SQL query from response"

ProcessingError == "Error processing question: "

FormattingError == "Error formatting results: "

SpeechError == "Error generating speech: "

RawShown == \E i \in DOMAIN ui : ui[i].el = "write" /\ ui[i].text = "" /\ ui[i].arg = raw_result

AudioShown == Has("markdown", "audio")

SummaryShown == Has("write", "summary")

\* ------------------------------------------------------------------ claims

\* C1: when the translation text does not contain the SQLQuery: marker, the
\* request ends with the error "Could not extract SQL query from response"
\* and neither the executor nor parsing, summarization or synthesis is
\* called in that request.
C1_NoMarkerNoExecution ==
  (Attempted("extract") /\ ~Contains(full_response, Marker)) =>
    /\ pc = "ready"
    /\ Has("error", ExtractionError)
    /\ ~Attempted("execute")
    /\ ~Attempted("parse")
    /\ ~Attempted("summarize")
    /\ ~Attempted("synthesize")

C1_Witness ==
  /\ Attempted("extract")
  /\ full_response # <<>>
  /\ ~Contains(full_response, Marker)
  /\ Has("error", ExtractionError)

\* C2 as stated: whenever the translation text contains SQLQuery: (whatever
\* follows the colon), extraction succeeds and the SQL given to the executor
\* is the trimmed text after the first marker.
C2_AnyMarkerExtracts ==
  (Attempted("extract") /\ Contains(full_response, Marker)) =>
    /\ Succeeded("extract")
    /\ IsTrimOf(clean_query, AfterFirst(full_response, Marker))

\* C2 amended: whenever the translation text contains the marker followed by
\* a space, extraction succeeds, the extracted SQL is the text from just
\* after the first "SQLQuery: " to the end with leading and trailing
\* whitespace removed, and that is the argument the executor is called with.
C2_MarkerSpaceExtracts ==
  (Attempted("extract") /\ Contains(full_response, Pattern)) =>
    /\ Succeeded("extract")
    /\ IsTrimOf(clean_query, AfterFirst(full_response, Pattern))
    /\ \A i \in DOMAIN trace :
         trace[i].stage = "execute" => trace[i].arg = PyStr(clean_query)

C2_Witness ==
  /\ Attempted("execute")
  /\ Contains(full_response, Pattern)
  /\ clean_query # <<>>
  /\ Len(clean_query) < Len(AfterFirst(full_response, Pattern))

\* C3: when the executor call raises, the request ends with the error
\* message reported, and no parsing, no results table, no summarization and
\* no speech synthesis takes place in that request.
C3_ExecuteErrorEndsRequest ==
  Failed("execute") =>
    /\ pc = "ready"
    /\ \E i \in DOMAIN ui :
         /\ ui[i].el = "error"
         /\ ui[i].text = ProcessingError
         /\ ui[i].arg \in ExecuteErrors
    /\ ~Attempted("parse")
    /\ ~HasEl("table")
    /\ ~Attempted("summarize")
    /\ ~Attempted("synthesize")

C3_Witness == Failed("execute") /\ Has("error", ProcessingError)

\* C4: when the query executed and parsed to at least one row but the
\* summarization call fails, the request completes with the table shown,
\* without a result-formatting error and without the raw-value fallback.
C4_SummaryFailureIsolated ==
  (Succeeded("parse") /\ Failed("summarize")) =>
    /\ pc = "ready"
    /\ HasEl("table")
    /\ ~Has("error", FormattingError)
    /\ ~RawShown

IsLiteralSequenceText(r) == r.py = "str" /\ r.lit \in {"list", "tuple"}

\* C5: for every raw result that is neither a list nor the text of a literal
\* sequence, parsing fails and the request completes with a formatting
\* error and the raw value shown, and with no table, summary or synthesis.
C5_NonSequenceFailsParse ==
  (Attempted("parse") /\ raw_result.py # "list" /\ ~IsLiteralSequenceText(raw_result)) =>
    /\ Failed("parse")
    /\ pc = "ready"
    /\ Has("error", FormattingError)
    /\ RawShown
    /\ ~HasEl("table")
    /\ ~Attempted("summarize")
    /\ ~Attempted("synthesize")

IsZeroRows(r) ==
  \/ r.py = "list" /\ r.n = 0
  \/ IsLiteralSequenceText(r) /\ r.n = 0

C7_NoVoiceNoSynthesis ==
  ~enable_voice => (~Attempted("synthesize") /\ pc # "voice" /\ ~AudioShown)

C7_Witness == ~enable_voice /\ Succeeded("summarize") /\ pc = "ready"

\* C8: when speech synthesis fails, the request still ends normally: the
\* synthesis error is reported, no audio player is shown, the table and the
\* summary remain shown, and no formatting or request-level error appears.
C8_SynthesisFailureNonFatal ==
  Failed("synthesize") =>
    /\ pc = "ready"
    /\ enable_voice
    /\ Has("error", SpeechError)
    /\ ~AudioShown
    /\ HasEl("table")
    /\ SummaryShown
    /\ ~Has("error", FormattingError)
    /\ ~Has("error", ProcessingError)

C8_Witness == Failed("synthesize") /\ Has("error", SpeechError) /\ pc = "ready"

Order == <<"translate", "extract", "execute", "parse", "summarize", "synthesize">>

\* C9: the stages of one request are attempted in the order translate,
\* extract, execute, parse, summarize, synthesize, each at most once, a
\* stage only after every earlier one succeeded; a failed translation ends
\* the request with no later stage.
C9_StagesInOrderOnce ==
  /\ Len(trace) <= Len(Order)
  /\ \A i \in DOMAIN trace :
       /\ trace[i].stage = Order[i]
       /\ i < Len(trace) => trace[i].ok
  /\ (trace # <<>> /\ ~trace[Len(trace)].ok) => pc = "ready"

C9_Witness == Len(trace) = Len(Order) /\ pc = "ready"

FailureRendered(stage) ==
  CASE stage = "translate" -> Has("error", ProcessingError)
    [] stage = "extract" -> Has("error", ExtractionError)
    [] stage = "execute" -> Has("error", ProcessingError)
    [] stage = "parse" -> Has("error", FormattingError)
    [] stage = "summarize" -> Has("error", FormattingError)
    [] stage = "synthesize" -> Has("error", SpeechError)

Terminal ==
  /\ pc = "ready"
  /\ \A i \in DOMAIN trace : ~trace[i].ok => FailureRendered(trace[i].stage)

\* C10: every request with a non-empty question eventually reaches a
\* terminal state in which every stage failure of the request is shown as a
\* message and the interface is ready for the next question; no failure
\* leaves the script run unfinished.
C10_EveryRequestTerminates == (pc # "ready") ~> Terminal

C10_Witness == pc = "ready" /\ Terminal /\ \E i \in DOMAIN trace : ~trace[i].ok

====
